---- MODULE Spec2Model ----
(***************************************************************************)
(* The workbench contributions registry                                    *)
(* (src/vs/workbench/common/contributions.ts, WorkbenchContributionsRegistry)*)
(* as a state machine: registration, lookup, start, the lifecycle phase    *)
(* continuations and the idle batches of the Restored and Eventually       *)
(* phases.                                                                 *)
(***************************************************************************)
EXTENDS Integers, Sequences, FiniteSets, TLC

\* ---------------------------------------------------------------- bounds
MaxRegs == 3
MaxThrows == 1

\* ------------------------------------------------------- program constants
PhaseStarting == 1
PhaseReady == 2
PhaseRestored == 3
PhaseEventually == 4

Phases == PhaseStarting..PhaseEventually

BlockStartup == PhaseStarting
BlockRestore == PhaseReady
AfterRestored == PhaseRestored
InstEventually == PhaseEventually
Lazy == PhaseEventually + 1

Instantiations == {BlockStartup, BlockRestore, AfterRestored, InstEventually, Lazy}

toPhase(instantiation) ==
    CASE instantiation = BlockStartup -> PhaseStarting
      [] instantiation = BlockRestore -> PhaseReady
      [] instantiation = AfterRestored -> PhaseRestored
      [] instantiation = InstEventually -> PhaseEventually

\* the ids a caller may pass; NoId stands for `undefined`
Ids == {"a"}
NoId == "undefined"

NoInstance == [ctor |-> 0, serial |-> 0]

EmptyMap == [k \in {} |-> k]

MapSet(m, k, v) == [x \in DOMAIN m \cup {k} |-> IF x = k THEN v ELSE m[x]]

MapDelete(m, k) == [x \in DOMAIN m \ {k} |-> m[x]]

NoBatch == [contributions |-> <<>>, i |-> 0, created |-> FALSE]

VARIABLES
    started,                      \* instantiationService etc. are set
    phase,                        \* lifecycleService.phase
    contributionsByPhase,
    contributionsById,
    instancesById,
    timingsByPhase,
    pendingRestoredContributions, \* the DeferredPromise: "pending" | "completed"
    whenCallbacks,                \* phases with a lifecycleService.when(p).then(...) outstanding
    microtasks,                   \* promise continuations ready to run, in order
    suspended,                    \* doInstantiateByPhase(Eventually) bodies awaiting whenRestored
    batch,                        \* the closures of doInstantiateWhenIdle, by phase
    idleQueue,                    \* callbacks handed to runWhenGlobalIdle, in order
    registrations,                \* history: every registerWorkbenchContribution2 call
    log,                          \* history: every safeCreateContribution call
    popped,                       \* history: what doInstantiateByPhase found, by phase
    completeCalls,                \* history: calls of pendingRestoredContributions.complete()
    consoleErrors                 \* history: the ids reported through console.error

progVars == <<started, contributionsByPhase, contributionsById, instancesById,
              timingsByPhase, pendingRestoredContributions>>

vars == <<started, phase, contributionsByPhase, contributionsById, instancesById,
          timingsByPhase, pendingRestoredContributions, whenCallbacks, microtasks,
          suspended, batch, idleQueue, registrations, log, popped, completeCalls,
          consoleErrors>>

\* ------------------------------------------------ the registry as a record
Cur ==
    [inst |-> instancesById, byId |-> contributionsById, byPhase |-> contributionsByPhase,
     timings |-> timingsByPhase, pending |-> pendingRestoredContributions,
     whenCallbacks |-> whenCallbacks, microtasks |-> microtasks, suspended |-> suspended,
     batch |-> batch, idleQueue |-> idleQueue, log |-> log, popped |-> popped,
     completeCalls |-> completeCalls, consoleErrors |-> consoleErrors]

Commit(r) ==
    /\ instancesById' = r.inst
    /\ contributionsById' = r.byId
    /\ contributionsByPhase' = r.byPhase
    /\ timingsByPhase' = r.timings
    /\ pendingRestoredContributions' = r.pending
    /\ whenCallbacks' = r.whenCallbacks
    /\ microtasks' = r.microtasks
    /\ suspended' = r.suspended
    /\ batch' = r.batch
    /\ idleQueue' = r.idleQueue
    /\ log' = r.log
    /\ popped' = r.popped
    /\ completeCalls' = r.completeCalls
    /\ consoleErrors' = r.consoleErrors

Thrown(l) == Cardinality({k \in 1..Len(l) : l[k].outcome = "throw"})

\* the sets of constructors that may throw in one step, within the budget
ThrowSets(r, ctors) ==
    {T \in SUBSET ctors : Thrown(r.log) + Cardinality(T) <= MaxThrows}

Ctors(contributions) == {contributions[k].ctor : k \in 1..Len(contributions)}

\* the constructors a synchronous dispatch of the phases in `phs` would run
PendingCtors(phs) ==
    UNION {Ctors(contributionsByPhase[ph]) : ph \in phs \cap DOMAIN contributionsByPhase}

\* ------------------------------------------------- the contribution factory
\* mutant: a created instance is not stored in instancesById
CreateNoStore(r, contribution, ph, T, by) ==
    LET id == contribution.id
        throws == contribution.ctor \in T
        timingsForPhase == IF ph \in DOMAIN r.timings THEN r.timings[ph] ELSE <<>>
        r2 == IF id # NoId
              THEN [r EXCEPT !.timings = MapSet(r.timings, ph, Append(timingsForPhase, id))]
              ELSE r
    IN [r2 EXCEPT !.log = Append(r.log,
            [ctor |-> contribution.ctor, id |-> id, by |-> by, ph |-> ph,
             outcome |-> IF throws THEN "throw" ELSE "ok"])]

\* lines 332-367: createInstance inside try/catch, then the timing entry
createContribution(r, contribution, ph, T, by) ==
    LET id == contribution.id
        throws == contribution.ctor \in T
        instance == [ctor |-> contribution.ctor, serial |-> Len(r.log) + 1]
        r1 == IF ~throws /\ id # NoId
              THEN [r EXCEPT !.inst = MapSet(r.inst, id, instance),
                             !.byId = MapDelete(r.byId, id)]
              ELSE r
        timingsForPhase == IF ph \in DOMAIN r.timings THEN r.timings[ph] ELSE <<>>
        r2 == IF id # NoId
              THEN [r1 EXCEPT !.timings = MapSet(r.timings, ph, Append(timingsForPhase, id))]
              ELSE r1
    IN [r2 EXCEPT !.log = Append(r.log,
            [ctor |-> contribution.ctor, id |-> id, by |-> by, ph |-> ph,
             outcome |-> IF throws THEN "throw" ELSE "ok"])]

\* mutant: the `instancesById.has(id)` early return is missing
SafeCreateNoGuard(r, contribution, ph, T, by) ==
    createContribution(r, contribution, ph, T, by)

safeCreateContribution(r, contribution, ph, T, by) ==
    IF contribution.id # NoId /\ contribution.id \in DOMAIN r.inst
    THEN [r EXCEPT !.log = Append(r.log,
            [ctor |-> contribution.ctor, id |-> contribution.id, by |-> by, ph |-> ph,
             outcome |-> "skip"])]
    ELSE createContribution(r, contribution, ph, T, by)

\* mutant: the batch is walked from its last contribution to its first
RECURSIVE CreateAllReversed(_, _, _, _)
CreateAllReversed(r, contributions, ph, T) ==
    IF contributions = <<>>
    THEN r
    ELSE CreateAllReversed(
            safeCreateContribution(r, contributions[Len(contributions)], ph, T, "batch"),
            SubSeq(contributions, 1, Len(contributions) - 1), ph, T)

\* mutant: a factory that throws ends the walk over the batch
RECURSIVE CreateAllStopAtThrow(_, _, _, _)
CreateAllStopAtThrow(r, contributions, ph, T) ==
    IF contributions = <<>>
    THEN r
    ELSE IF Head(contributions).ctor \in T
    THEN safeCreateContribution(r, Head(contributions), ph, T, "batch")
    ELSE CreateAllStopAtThrow(safeCreateContribution(r, Head(contributions), ph, T, "batch"),
                              Tail(contributions), ph, T)

\* `for (const contribution of contributions) safeCreateContribution(...)`
RECURSIVE createAll(_, _, _, _)
createAll(r, contributions, ph, T) ==
    IF contributions = <<>>
    THEN r
    ELSE createAll(safeCreateContribution(r, Head(contributions), ph, T, "batch"),
                   Tail(contributions), ph, T)

\* ------------------------------------------------------------ idle batches
\* DeferredPromise.complete(): settles the promise once and releases its awaiters
complete(r) ==
    [r EXCEPT !.completeCalls = r.completeCalls + 1,
              !.pending = "completed",
              !.microtasks = r.microtasks \o
                  [k \in 1..Len(r.suspended) |->
                      [kind |-> "resume", ph |-> PhaseEventually,
                       contributions |-> r.suspended[k]]],
              !.suspended = <<>>]

\* mutant: the Eventually batch does not wait for whenRestored
NoAwaitRestored(r, contributions) ==
    [r EXCEPT !.microtasks = Append(r.microtasks,
        [kind |-> "resume", ph |-> PhaseEventually, contributions |-> contributions])]

\* `await this.pendingRestoredContributions.p`
awaitRestored(r, contributions) ==
    IF r.pending = "completed"
    THEN [r EXCEPT !.microtasks = Append(r.microtasks,
            [kind |-> "resume", ph |-> PhaseEventually, contributions |-> contributions])]
    ELSE [r EXCEPT !.suspended = Append(r.suspended, contributions)]

doInstantiateWhenIdle(r, contributions, ph) ==
    [r EXCEPT !.batch = [r.batch EXCEPT ![ph] =
                            [contributions |-> contributions, i |-> 0, created |-> TRUE]],
              !.idleQueue = Append(r.idleQueue, ph)]

\* mutant: the loop never asks for the remaining idle time
InstantiateLoopIgnoresTime(left, timeIsUp, n) ==
    [k |-> n + left, timeUp |-> FALSE]

\* the while loop of instantiateSome, with `left` contributions to go: after
\* each creation idle.timeRemaining() is asked, and timeIsUp[n] tells whether
\* the n-th answer of this slice is below 1. The result is the number of
\* contributions created and whether the loop ended by rescheduling.
RECURSIVE instantiateLoop(_, _, _)
instantiateLoop(left, timeIsUp, n) ==
    IF left = 0
    THEN [k |-> n, timeUp |-> FALSE]
    ELSE IF timeIsUp[n + 1]
    THEN [k |-> n + 1, timeUp |-> TRUE]
    ELSE instantiateLoop(left - 1, timeIsUp, n + 1)

\* mutant: the Restored batch completes at the end of its first slice
InstantiateSomeCompletesEarly(r, ph, k, timeUp, T) ==
    LET b == r.batch[ph]
        r1 == createAll(r, SubSeq(b.contributions, b.i + 1, b.i + k), ph, T)
        r2 == [r1 EXCEPT !.batch = [r1.batch EXCEPT ![ph] = [b EXCEPT !.i = b.i + k]],
                         !.idleQueue = IF timeUp THEN Append(r1.idleQueue, ph)
                                                 ELSE r1.idleQueue]
    IN IF ph = PhaseRestored THEN complete(r2) ELSE r2

\* one run of the instantiateSome closure: k contributions are created, and
\* timeUp tells whether idle.timeRemaining() < 1 ended the loop
instantiateSome(r, ph, k, timeUp, T) ==
    LET b == r.batch[ph]
        r1 == createAll(r, SubSeq(b.contributions, b.i + 1, b.i + k), ph, T)
        r2 == [r1 EXCEPT !.batch = [r1.batch EXCEPT ![ph] = [b EXCEPT !.i = b.i + k]],
                         !.idleQueue = IF timeUp THEN Append(r1.idleQueue, ph)
                                                 ELSE r1.idleQueue]
    IN IF b.i + k = Len(b.contributions) /\ ph = PhaseRestored THEN complete(r2) ELSE r2

\* ------------------------------------------------------------ phase driver
\* mutant: the dispatched phase keeps its entry in contributionsByPhase
DoInstantiateKeepsPending(r, ph, T) ==
    IF ph \notin DOMAIN r.byPhase
    THEN [r EXCEPT !.popped = MapSet(r.popped, ph, <<>>)]
    ELSE LET contributions == r.byPhase[ph]
             r1 == [r EXCEPT !.popped = MapSet(r.popped, ph, contributions)]
         IN CASE ph \in {PhaseStarting, PhaseReady} -> createAll(r1, contributions, ph, T)
              [] ph = PhaseRestored -> doInstantiateWhenIdle(r1, contributions, ph)
              [] ph = PhaseEventually -> awaitRestored(r1, contributions)

\* the synchronous part of doInstantiateByPhase, up to its first await
doInstantiateByPhase(r, ph, T) ==
    IF ph \notin DOMAIN r.byPhase
    THEN [r EXCEPT !.popped = MapSet(r.popped, ph, <<>>)]
    ELSE LET contributions == r.byPhase[ph]
             r1 == [r EXCEPT !.byPhase = MapDelete(r.byPhase, ph),
                             !.popped = MapSet(r.popped, ph, contributions)]
         IN CASE ph \in {PhaseStarting, PhaseReady} -> createAll(r1, contributions, ph, T)
              [] ph = PhaseRestored -> doInstantiateWhenIdle(r1, contributions, ph)
              [] ph = PhaseEventually -> awaitRestored(r1, contributions)

\* mutant: every phase waits for lifecycleService.when(phase)
InstantiateByPhaseAlwaysWaits(r, ph, T) ==
    [r EXCEPT !.whenCallbacks = r.whenCallbacks \cup {ph}]

instantiateByPhase(r, ph, T) ==
    IF phase >= ph
    THEN doInstantiateByPhase(r, ph, T)
    ELSE [r EXCEPT !.whenCallbacks = r.whenCallbacks \cup {ph}]

\* `for (const phase of [Starting, Ready, Restored, Eventually]) instantiateByPhase(...)`
RECURSIVE startFrom(_, _, _)
startFrom(r, ph, T) ==
    IF ph > PhaseEventually THEN r ELSE startFrom(instantiateByPhase(r, ph, T), ph + 1, T)

\* ------------------------------------------------------------ registration
\* mutant: only a phase strictly below the current one is instantiated directly
RegisterInlineStrict(instantiation) ==
    instantiation # Lazy /\ started /\ phase > instantiation

\* the condition of line 163
registerInline(instantiation) ==
    instantiation # Lazy /\ started /\ phase >= instantiation

\* mutant: a Lazy contribution is also kept with those of the Eventually phase
RegisterLazyByPhase(r, contribution, instantiation, T) ==
    IF registerInline(instantiation)
    THEN safeCreateContribution(r, contribution, toPhase(instantiation), T, "register")
    ELSE LET id == contribution.id
             ph == IF instantiation = Lazy THEN PhaseEventually ELSE toPhase(instantiation)
             contributionsForPhase == IF ph \in DOMAIN r.byPhase THEN r.byPhase[ph] ELSE <<>>
             r1 == [r EXCEPT !.byPhase =
                       MapSet(r.byPhase, ph, Append(contributionsForPhase, contribution))]
         IN IF id = NoId
            THEN r1
            ELSE IF id \notin DOMAIN r.byId
                 THEN [r1 EXCEPT !.byId = MapSet(r.byId, id, contribution)]
                 ELSE [r1 EXCEPT !.consoleErrors = Append(r.consoleErrors, id)]

registerWorkbenchContribution2(r, contribution, instantiation, T) ==
    IF registerInline(instantiation)
    THEN safeCreateContribution(r, contribution, toPhase(instantiation), T, "register")
    ELSE LET id == contribution.id
             r1 == IF instantiation # Lazy
                   THEN LET ph == toPhase(instantiation)
                            contributionsForPhase ==
                                IF ph \in DOMAIN r.byPhase THEN r.byPhase[ph] ELSE <<>>
                        IN [r EXCEPT !.byPhase =
                               MapSet(r.byPhase, ph, Append(contributionsForPhase, contribution))]
                   ELSE r
         IN IF id = NoId
            THEN r1
            ELSE IF id \notin DOMAIN r.byId
                 THEN [r1 EXCEPT !.byId = MapSet(r.byId, id, contribution)]
                 ELSE [r1 EXCEPT !.consoleErrors = Append(r.consoleErrors, id)]

\* mutant: the lookup does not test that the services are set
GetWithoutStartCheck(r, id, T) ==
    IF id \in DOMAIN r.inst
    THEN [reg |-> r, res |-> "instance", value |-> r.inst[id]]
    ELSE IF id \notin DOMAIN r.byId
    THEN [reg |-> r, res |-> "unknown", value |-> NoInstance]
    ELSE LET r1 == safeCreateContribution(r, r.byId[id], phase, T, "get")
         IN IF id \in DOMAIN r1.inst
            THEN [reg |-> r1, res |-> "instance", value |-> r1.inst[id]]
            ELSE [reg |-> r1, res |-> "failed", value |-> NoInstance]

\* the result of getWorkbenchContribution: the registry after the call and
\* what the call returned or threw
getWorkbenchContribution(r, id, T) ==
    IF id \in DOMAIN r.inst
    THEN [reg |-> r, res |-> "instance", value |-> r.inst[id]]
    ELSE IF ~started
    THEN [reg |-> r, res |-> "notStarted", value |-> NoInstance]
    ELSE IF id \notin DOMAIN r.byId
    THEN [reg |-> r, res |-> "unknown", value |-> NoInstance]
    ELSE LET r1 == safeCreateContribution(r, r.byId[id], phase, T, "get")
         IN IF id \in DOMAIN r1.inst
            THEN [reg |-> r1, res |-> "instance", value |-> r1.inst[id]]
            ELSE [reg |-> r1, res |-> "failed", value |-> NoInstance]

\* ----------------------------------------------------------------- actions
Init ==
    /\ started = FALSE
    /\ phase = PhaseStarting
    /\ contributionsByPhase = EmptyMap
    /\ contributionsById = EmptyMap
    /\ instancesById = EmptyMap
    /\ timingsByPhase = EmptyMap
    /\ pendingRestoredContributions = "pending"
    /\ whenCallbacks = {}
    /\ microtasks = <<>>
    /\ suspended = <<>>
    /\ batch = [ph \in {PhaseRestored, PhaseEventually} |-> NoBatch]
    /\ idleQueue = <<>>
    /\ registrations = <<>>
    /\ log = <<>>
    /\ popped = EmptyMap
    /\ completeCalls = 0
    /\ consoleErrors = <<>>

Register(id, instantiation) ==
    /\ Len(registrations) < MaxRegs
    /\ LET ctor == Len(registrations) + 1
           contribution == [id |-> id, ctor |-> ctor]
           inline == registerInline(instantiation)
       IN /\ \E T \in (IF inline THEN ThrowSets(Cur, {ctor}) ELSE {{}}) :
                Commit(registerWorkbenchContribution2(Cur, contribution, instantiation, T))
          /\ registrations' = Append(registrations,
                [id |-> id, instantiation |-> instantiation,
                 early |-> instantiation # Lazy /\ toPhase(instantiation) \notin DOMAIN popped])
    /\ UNCHANGED <<started, phase>>

Get(id) ==
    /\ \E T \in ThrowSets(Cur, IF id \in DOMAIN contributionsById
                                THEN {contributionsById[id].ctor} ELSE {}) :
          Commit(getWorkbenchContribution(Cur, id, T).reg)
    /\ UNCHANGED <<started, phase, registrations>>

Start ==
    /\ ~started
    /\ started' = TRUE
    /\ \E T \in ThrowSets(Cur, PendingCtors({ph \in {PhaseStarting, PhaseReady} : phase >= ph})) :
          Commit(startFrom(Cur, PhaseStarting, T))
    /\ UNCHANGED <<phase, registrations>>

\* the lifecycle service moves to the next phase and opens that phase's barrier
AdvancePhase ==
    /\ phase < PhaseEventually
    /\ phase' = phase + 1
    /\ IF phase + 1 \in whenCallbacks
       THEN /\ whenCallbacks' = whenCallbacks \ {phase + 1}
            /\ microtasks' = Append(microtasks,
                   [kind |-> "phase", ph |-> phase + 1, contributions |-> <<>>])
       ELSE UNCHANGED <<whenCallbacks, microtasks>>
    /\ UNCHANGED <<started, contributionsByPhase, contributionsById, instancesById,
                   timingsByPhase, pendingRestoredContributions, suspended, batch,
                   idleQueue, registrations, log, popped, completeCalls, consoleErrors>>

\* lifecycleService.when(phase).then(() => this.doInstantiateByPhase(...))
RunPhaseContinuation ==
    /\ microtasks # <<>>
    /\ Head(microtasks).kind = "phase"
    /\ LET r0 == [Cur EXCEPT !.microtasks = Tail(microtasks)]
           ph == Head(microtasks).ph
       IN \E T \in ThrowSets(Cur, PendingCtors({ph} \cap {PhaseStarting, PhaseReady})) :
             Commit(doInstantiateByPhase(r0, ph, T))
    /\ UNCHANGED <<started, phase, registrations>>

\* doInstantiateByPhase(Eventually) resumes after `await whenRestored`
ResumeAfterRestored ==
    /\ microtasks # <<>>
    /\ Head(microtasks).kind = "resume"
    /\ LET r0 == [Cur EXCEPT !.microtasks = Tail(microtasks)]
       IN Commit(doInstantiateWhenIdle(r0, Head(microtasks).contributions, Head(microtasks).ph))
    /\ UNCHANGED <<started, phase, registrations>>

\* the idle scheduler runs the oldest callback: one instantiateSome slice
IdleSlice ==
    /\ idleQueue # <<>>
    /\ microtasks = <<>>
    /\ LET ph == Head(idleQueue)
           r0 == [Cur EXCEPT !.idleQueue = Tail(idleQueue)]
           left == Len(batch[ph].contributions) - batch[ph].i
       IN \E timeIsUp \in [1..left -> BOOLEAN] :
          LET loop == instantiateLoop(left, timeIsUp, 0)
          IN \E T \in ThrowSets(Cur, Ctors(SubSeq(batch[ph].contributions,
                                                  batch[ph].i + 1, batch[ph].i + loop.k))) :
                Commit(instantiateSome(r0, ph, loop.k, loop.timeUp, T))
    /\ UNCHANGED <<started, phase, registrations>>

\* the same callback under an idle scheduler whose timeRemaining() is below 1
\* at every check
IdleSliceNoTime ==
    /\ idleQueue # <<>>
    /\ microtasks = <<>>
    /\ LET ph == Head(idleQueue)
           r0 == [Cur EXCEPT !.idleQueue = Tail(idleQueue)]
           left == Len(batch[ph].contributions) - batch[ph].i
           loop == instantiateLoop(left, [n \in 1..left |-> TRUE], 0)
       IN \E T \in ThrowSets(Cur, Ctors(SubSeq(batch[ph].contributions,
                                               batch[ph].i + 1, batch[ph].i + loop.k))) :
             Commit(instantiateSome(r0, ph, loop.k, loop.timeUp, T))
    /\ UNCHANGED <<started, phase, registrations>>

Next ==
    \/ \E id \in Ids \cup {NoId}, instantiation \in Instantiations : Register(id, instantiation)
    \/ \E id \in Ids : Get(id)
    \/ Start
    \/ AdvancePhase
    \/ RunPhaseContinuation
    \/ ResumeAfterRestored
    \/ IdleSlice

Spec == Init /\ [][Next]_vars

\* every ready continuation runs and every scheduled idle callback fires
FairSpec ==
    Spec /\ WF_vars(RunPhaseContinuation) /\ WF_vars(ResumeAfterRestored) /\ WF_vars(IdleSlice)

NextNoTime ==
    \/ \E id \in Ids \cup {NoId}, instantiation \in Instantiations : Register(id, instantiation)
    \/ \E id \in Ids : Get(id)
    \/ Start
    \/ AdvancePhase
    \/ RunPhaseContinuation
    \/ ResumeAfterRestored
    \/ IdleSliceNoTime

\* the registry under the idle scheduler that never grants time, every ready
\* continuation and every scheduled idle callback being run
NoTimeSpec ==
    /\ Init
    /\ [][NextNoTime]_vars
    /\ WF_vars(RunPhaseContinuation)
    /\ WF_vars(ResumeAfterRestored)
    /\ WF_vars(IdleSliceNoTime)

\* ======================================================================
\* Properties
\* ======================================================================
\* createInstance was called in the k-th safeCreateContribution call
Invoked(k) == log[k].outcome \in {"ok", "throw"}

LogIdx == 1..Len(log)

RegIdx == 1..Len(registrations)

\* the step is a registerWorkbenchContribution2 call
RegisterStep == Len(registrations') = Len(registrations) + 1

\* the constructor of the first registration that carried `id`
FirstRegistered(id) ==
    CHOOSE c \in RegIdx :
        /\ registrations[c].id = id
        /\ \A d \in RegIdx : registrations[d].id = id => c <= d

\* ---------------------------------------------------------------- C1
\* C1: the instance cache is append-only. A step never removes an id from
\* instancesById and never maps it to another instance, and in every state
\* getWorkbenchContribution(id) for a cached id returns the cached instance
\* and leaves the whole registry as it was (no factory call, no log entry).
C1_CacheStep ==
    \A id \in DOMAIN instancesById :
        id \in DOMAIN instancesById' /\ instancesById'[id] = instancesById[id]

C1_CacheHit ==
    \A id \in DOMAIN instancesById :
        \A T \in SUBSET RegIdx :
            getWorkbenchContribution(Cur, id, T) =
                [reg |-> Cur, res |-> "instance", value |-> instancesById[id]]

C1_InstanceCacheAppendOnly == [](C1_CacheHit) /\ [][C1_CacheStep]_vars

\* a cached id was handed to the factory again and the call was skipped
C1_Witness ==
    \E k \in LogIdx :
        /\ log[k].outcome = "skip"
        /\ log[k].id \in DOMAIN instancesById
        /\ instancesById[log[k].id].ctor # log[k].ctor

\* ---------------------------------------------------------------- C2
\* C2 as stated: createInstance is never invoked a second time for an id.
C2_InvokedAtMostOncePerId ==
    \A id \in Ids : Cardinality({k \in LogIdx : log[k].id = id /\ Invoked(k)}) <= 1

\* C2 amended: createInstance is never invoked for an id that already has an
\* instance, so at most one invocation per id returns an instance; only an
\* invocation that raised can be followed by another one for the same id.
C2_NoInvocationAfterSuccess ==
    /\ \A j, k \in LogIdx :
          (j < k /\ log[j].id # NoId /\ log[j].id = log[k].id /\ log[j].outcome = "ok")
              => ~Invoked(k)
    /\ \A id \in Ids :
          id \in DOMAIN instancesById <=> \E k \in LogIdx : log[k].id = id /\ log[k].outcome = "ok"

\* an invocation raised, a later one for the same id succeeded, and a third
\* attempt was skipped
C2_Witness ==
    \E j, k, m \in LogIdx :
        /\ j < k /\ k < m
        /\ log[j].id # NoId /\ log[j].id = log[k].id /\ log[k].id = log[m].id
        /\ log[j].outcome = "throw" /\ log[k].outcome = "ok" /\ log[m].outcome = "skip"

\* ---------------------------------------------------------------- C3
\* C3: the idle batch of the Eventually phase is created only after the
\* Restored batch has processed its last contribution and the signal has
\* completed, and no contribution of the Restored batch is handed to the
\* factory after one of the Eventually batch.
C3_EventuallyBatchAfterRestoredBatch ==
    /\ (batch[PhaseEventually].created \/ \E m \in 1..Len(microtasks) : microtasks[m].kind = "resume")
          => /\ pendingRestoredContributions = "completed"
             /\ batch[PhaseRestored].created
             /\ batch[PhaseRestored].i = Len(batch[PhaseRestored].contributions)
    /\ \A j, k \in LogIdx :
          (log[j].by = "batch" /\ log[j].ph = PhaseEventually /\
           log[k].by = "batch" /\ log[k].ph = PhaseRestored) => k < j

\* the Eventually phase was dispatched while the Restored batch was part-way
\* through its contributions, and its batch is held back
C3_Witness ==
    /\ suspended # <<>>
    /\ phase = PhaseEventually
    /\ batch[PhaseRestored].i >= 1
    /\ batch[PhaseRestored].i < Len(batch[PhaseRestored].contributions)

\* ---------------------------------------------------------------- C4
\* C4: a contribution registered with policy Eventually is constructed, by the
\* phase batch or inline by its registration, only once the Restored-completion
\* signal has fired. (The signal never goes back to pending, so "constructed
\* before the signal" is "constructed while the signal is pending".)
C4_EventuallyOnlyAfterRestoredSignal ==
    \A k \in LogIdx :
        (/\ Invoked(k)
         /\ log[k].by \in {"batch", "register"}
         /\ registrations[log[k].ctor].instantiation = InstEventually)
            => pendingRestoredContributions = "completed"

\* ---------------------------------------------------------------- C5
\* C5: once start has been called and the lifecycle is at Restored or later,
\* whenRestored eventually completes (every continuation and every idle
\* callback being run eventually).
C5_WhenRestoredEventuallyCompletes ==
    (started /\ phase >= PhaseRestored) ~> (pendingRestoredContributions = "completed")

\* ---------------------------------------------------------------- C6
\* C6: when whenRestored has completed, the phases Starting, Ready and Restored
\* have been dispatched, nothing is left pending for them, every contribution
\* popped for them has been handed to the factory by its batch, and the
\* Restored batch has processed its last contribution.
C6_RestoredSignalMeansDrained ==
    pendingRestoredContributions = "completed" =>
        /\ batch[PhaseRestored].created
        /\ batch[PhaseRestored].i = Len(batch[PhaseRestored].contributions)
        /\ \A ph \in {PhaseStarting, PhaseReady, PhaseRestored} :
              /\ ph \in DOMAIN popped
              /\ ph \notin DOMAIN contributionsByPhase
              /\ \A c \in Ctors(popped[ph]) :
                    \E k \in LogIdx : log[k].ctor = c /\ log[k].by = "batch" /\ log[k].ph = ph

\* the signal completed after a Ready batch and a Restored batch of two
C6_Witness ==
    /\ pendingRestoredContributions = "completed"
    /\ PhaseReady \in DOMAIN popped /\ popped[PhaseReady] # <<>>
    /\ Len(batch[PhaseRestored].contributions) >= 2

\* ---------------------------------------------------------------- C7
\* C7 as stated: of two descriptors registered for the same phase before that
\* phase is dispatched, the factory of the later one is invoked only after
\* the factory of the earlier one.
C7_FactoriesInRegistrationOrder ==
    \A d1, d2 \in RegIdx :
        (/\ d1 < d2
         /\ registrations[d1].instantiation = registrations[d2].instantiation
         /\ registrations[d1].early /\ registrations[d2].early)
            => \A k \in LogIdx :
                  (log[k].ctor = d2 /\ Invoked(k))
                      => \E j \in 1..(k - 1) : log[j].ctor = d1 /\ Invoked(j)

\* C7 amended: the batch of a phase hands the contributions it popped to the
\* factory in registration order: when the batch hands over d2, it has handed
\* over every d1 of the same pending sequence that was registered before d2.
C7_BatchInRegistrationOrder ==
    \A k \in LogIdx :
        log[k].by = "batch" =>
            \A d1 \in Ctors(popped[log[k].ph]) :
                d1 < log[k].ctor =>
                    \E j \in 1..(k - 1) :
                        log[j].ctor = d1 /\ log[j].by = "batch" /\ log[j].ph = log[k].ph

\* a batch constructed two contributions of one phase, and another one
\* constructed two out of registration order through a lookup
C7_Witness ==
    \E j, k \in LogIdx :
        /\ j < k
        /\ log[j].by = "batch" /\ log[k].by = "batch" /\ log[j].ph = log[k].ph
        /\ Invoked(j) /\ Invoked(k)
        /\ log[j].ctor < log[k].ctor

\* ---------------------------------------------------------------- C8
\* C8: a registration made after start with a non-Lazy policy whose phase is at
\* most the current phase calls safeCreateContribution for the descriptor
\* within the call and adds it to neither index; any other registration calls
\* no factory and touches neither the instance cache, the timings nor the signal.
C8_Step ==
    RegisterStep =>
        LET ctor == Len(registrations')
            rec == registrations'[ctor]
        IN IF started /\ rec.instantiation # Lazy /\ rec.instantiation <= phase
           THEN /\ Len(log') = Len(log) + 1
                /\ log'[Len(log')].ctor = ctor
                /\ log'[Len(log')].by = "register"
                /\ contributionsByPhase' = contributionsByPhase
                /\ \A id \in DOMAIN contributionsById' :
                      id \in DOMAIN contributionsById /\
                      contributionsById'[id] = contributionsById[id]
           ELSE /\ log' = log
                /\ instancesById' = instancesById
                /\ timingsByPhase' = timingsByPhase
                /\ pendingRestoredContributions' = pendingRestoredContributions
                /\ \/ rec.instantiation = Lazy /\ contributionsByPhase' = contributionsByPhase
                   \/ /\ rec.instantiation # Lazy
                      /\ toPhase(rec.instantiation) \in DOMAIN contributionsByPhase'
                      /\ ctor \in Ctors(contributionsByPhase'[toPhase(rec.instantiation)])

C8_RegistrationInlineOrStored == [][C8_Step]_vars

\* a registration for exactly the current phase was constructed inline, and an
\* another one, for a later phase, is stored
C8_Witness ==
    /\ \E k \in LogIdx : log[k].by = "register" /\ log[k].ph = phase /\ Invoked(k)
    /\ \E ph \in DOMAIN contributionsByPhase : ph > phase

\* ---------------------------------------------------------------- C9
\* C9: only the first descriptor registered under an id is ever constructed,
\* and the instance stored under the id was built by it.
C9_FirstRegistrationWins ==
    /\ \A k \in LogIdx :
          (Invoked(k) /\ log[k].id # NoId) => log[k].ctor = FirstRegistered(log[k].id)
    /\ \A id \in DOMAIN instancesById : instancesById[id].ctor = FirstRegistered(id)

\* ---------------------------------------------------------------- C10
\* C10: a registration whose id was registered before is reported through
\* console.error and changes neither index nor the instance cache.
C10_Step ==
    RegisterStep =>
        LET rec == registrations'[Len(registrations')]
        IN (rec.id # NoId /\ \E d \in RegIdx : registrations[d].id = rec.id)
              => /\ consoleErrors' = Append(consoleErrors, rec.id)
                 /\ contributionsByPhase' = contributionsByPhase
                 /\ contributionsById' = contributionsById
                 /\ instancesById' = instancesById

C10_DuplicateRejected == [][C10_Step]_vars

\* the batch of phase ph called safeCreateContribution for constructor c
HandedByBatch(ph, c) ==
    \E k \in LogIdx : log[k].ctor = c /\ log[k].by = "batch" /\ log[k].ph = ph

\* ---------------------------------------------------------------- C11
\* C11: a factory that throws stops nothing. Every contribution popped for
\* Starting or Ready has been handed to the factory; an idle batch has handed
\* over every contribution up to its index, in registration order, and while
\* contributions remain another slice is scheduled; a Restored batch that
\* reached its end has completed the signal; and once started, every phase
\* is dispatched or has its continuation outstanding.
C11_FailureDoesNotStopOthers ==
    /\ \A ph \in DOMAIN popped \cap {PhaseStarting, PhaseReady} :
          \A c \in Ctors(popped[ph]) : HandedByBatch(ph, c)
    /\ \A ph \in {PhaseRestored, PhaseEventually} :
          /\ \A m \in 1..batch[ph].i : HandedByBatch(ph, batch[ph].contributions[m].ctor)
          /\ (batch[ph].created /\ batch[ph].i < Len(batch[ph].contributions))
                => \E q \in 1..Len(idleQueue) : idleQueue[q] = ph
    /\ (batch[PhaseRestored].created /\
        batch[PhaseRestored].i = Len(batch[PhaseRestored].contributions))
          => pendingRestoredContributions = "completed"
    /\ \A j, k \in LogIdx :
          (j < k /\ log[j].by = "batch" /\ log[k].by = "batch" /\ log[j].ph = log[k].ph)
              => log[j].ctor < log[k].ctor
    /\ started =>
          \A ph \in Phases :
              \/ ph \in DOMAIN popped
              \/ ph \in whenCallbacks
              \/ \E m \in 1..Len(microtasks) : microtasks[m].kind = "phase" /\ microtasks[m].ph = ph

\* the first contribution of a Restored batch of two threw, the batch went on
\* to its end, the signal completed and the Eventually batch was created
C11_Witness ==
    /\ \E k \in LogIdx :
          /\ log[k].outcome = "throw" /\ log[k].by = "batch" /\ log[k].ph = PhaseRestored
          /\ \E m \in 1..Len(batch[PhaseRestored].contributions) :
                batch[PhaseRestored].contributions[m].ctor > log[k].ctor
    /\ pendingRestoredContributions = "completed"
    /\ batch[PhaseEventually].created

\* ---------------------------------------------------------------- C12
\* C12: after a factory threw for a descriptor with an id that has no
\* instance, contributionsById still holds a descriptor for the id, so that
\* getWorkbenchContribution(id) calls the factory again and returns the
\* instance or throws 'failed to create', never 'unknown'.
C12_FailedDescriptorStaysIndexed ==
    \A k \in LogIdx :
        (log[k].outcome = "throw" /\ log[k].id # NoId /\ log[k].id \notin DOMAIN instancesById)
            => /\ log[k].id \in DOMAIN contributionsById
               /\ \A T \in SUBSET RegIdx :
                     LET g == getWorkbenchContribution(Cur, log[k].id, T)
                     IN /\ g.res = (IF contributionsById[log[k].id].ctor \in T
                                    THEN "failed" ELSE "instance")
                        /\ Len(g.reg.log) = Len(log) + 1

\* ---------------------------------------------------------------- C13
\* C13: for an id without an instance, getWorkbenchContribution throws 'not
\* started' before start, whether or not the id is registered, and throws
\* 'unknown' after start when contributionsById has no descriptor for the id;
\* in both cases the registry is left exactly as it was and no factory is
\* called.
C13_LookupErrorsChangeNothing ==
    \A id \in Ids :
        id \notin DOMAIN instancesById =>
            \A T \in SUBSET RegIdx :
                LET g == getWorkbenchContribution(Cur, id, T)
                IN /\ ~started =>
                        g = [reg |-> Cur, res |-> "notStarted", value |-> NoInstance]
                   /\ (started /\ id \notin DOMAIN contributionsById) =>
                        g = [reg |-> Cur, res |-> "unknown", value |-> NoInstance]

\* after start, an id that was registered has neither an instance nor a
\* descriptor in contributionsById, while other descriptors are pending
C13_Witness ==
    /\ started
    /\ \E id \in Ids :
          /\ id \notin DOMAIN instancesById
          /\ id \notin DOMAIN contributionsById
          /\ \E d \in RegIdx : registrations[d].id = id
    /\ contributionsByPhase # EmptyMap

\* ---------------------------------------------------------------- C14
\* C14: under an idle scheduler that never grants time, each slice of an idle
\* batch hands exactly the next contribution of the batch to the factory, in
\* registration order, so a batch of N takes N productive slices; while
\* contributions remain the next slice is scheduled, so that the batch is
\* handed over to its last contribution once every scheduled callback has
\* run; and whatever the scheduler answers, a slice that finds contributions
\* left hands over at least one.
C14_OnePerSlice ==
    \A ph \in {PhaseRestored, PhaseEventually} :
        batch'[ph].i # batch[ph].i =>
            /\ batch'[ph].i = batch[ph].i + 1
            /\ batch'[ph].contributions = batch[ph].contributions
            /\ Len(log') = Len(log) + 1
            /\ log'[Len(log')].ctor = batch[ph].contributions[batch[ph].i + 1].ctor
            /\ log'[Len(log')].by = "batch"
            /\ log'[Len(log')].ph = ph

C14_SliceMakesProgress ==
    \A ph \in {PhaseRestored, PhaseEventually} :
        LET left == Len(batch[ph].contributions) - batch[ph].i
        IN \A timeIsUp \in [1..left -> BOOLEAN] :
              left >= 1 => instantiateLoop(left, timeIsUp, 0).k >= 1

\* while contributions remain, the next slice is scheduled, and the batch
\* has made exactly as many factory calls as its index says
C14_RemainingIsScheduled ==
    \A ph \in {PhaseRestored, PhaseEventually} :
        /\ (batch[ph].created /\ batch[ph].i < Len(batch[ph].contributions))
              => \E q \in 1..Len(idleQueue) : idleQueue[q] = ph
        /\ batch[ph].i <= Len(batch[ph].contributions)
        /\ Cardinality({k \in LogIdx : log[k].by = "batch" /\ log[k].ph = ph}) = batch[ph].i

C15_LazyState ==
    \A d \in RegIdx :
        registrations[d].instantiation = Lazy =>
            /\ \A ph \in DOMAIN contributionsByPhase : d \notin Ctors(contributionsByPhase[ph])
            /\ \A ph \in DOMAIN popped : d \notin Ctors(popped[ph])
            /\ \A k \in LogIdx : log[k].ctor = d => log[k].by = "get"

C15_LazyStep ==
    (RegisterStep /\ registrations'[Len(registrations')].instantiation = Lazy) =>
        LET d == Len(registrations')
            id == registrations'[d].id
        IN /\ contributionsByPhase' = contributionsByPhase
           /\ log' = log
           /\ (id # NoId /\ id \notin DOMAIN contributionsById)
                 => contributionsById' = MapSet(contributionsById, id, [id |-> id, ctor |-> d])
           /\ (id = NoId \/ id \in DOMAIN contributionsById)
                 => contributionsById' = contributionsById

C15_LazyOnlyByLookup == [](C15_LazyState) /\ [][C15_LazyStep]_vars

\* every phase has been dispatched with a Lazy contribution still pending,
\* and a lookup then constructed it
C15_Witness ==
    /\ DOMAIN popped = Phases
    /\ \E k \in LogIdx :
          /\ log[k].by = "get" /\ log[k].outcome = "ok"
          /\ log[k].ph = PhaseEventually
          /\ registrations[log[k].ctor].instantiation = Lazy

\* ---------------------------------------------------------------- C16
\* C16: once start has been called and the lifecycle has reached its last
\* phase, every contribution registered with a policy other than Lazy is
\* eventually handed to the factory (every continuation and every idle
\* callback being run eventually).
C16_NonLazyEventuallyHanded ==
    (started /\ phase = PhaseEventually) ~>
        (\A d \in RegIdx :
            registrations[d].instantiation # Lazy => \E k \in LogIdx : log[k].ctor = d)

\* ---------------------------------------------------------------- C17
\* C17: a phase is dispatched once, in increasing phase order, and its pending
\* sequence leaves contributionsByPhase at the dispatch: a dispatched phase
\* has no entry in contributionsByPhase, no continuation outstanding, and what
\* was popped for it never changes; a later registration for it is
\* constructed inline; and safeCreateContribution is called at most once for a
\* descriptor by the batches and the inline registrations together.
C17_Dispatched ==
    /\ \A ph \in DOMAIN popped :
          /\ ph \notin DOMAIN contributionsByPhase
          /\ ph \notin whenCallbacks
          /\ \A m \in 1..Len(microtasks) : ~(microtasks[m].kind = "phase" /\ microtasks[m].ph = ph)
          /\ \A q \in Phases : q < ph => q \in DOMAIN popped
    /\ \A d \in RegIdx :
          Cardinality({k \in LogIdx : log[k].ctor = d /\ log[k].by \in {"batch", "register"}}) <= 1

C17_DispatchStep ==
    /\ \A ph \in DOMAIN popped : ph \in DOMAIN popped' /\ popped'[ph] = popped[ph]
    /\ \A ph \in DOMAIN popped' \ DOMAIN popped :
          popped'[ph] = (IF ph \in DOMAIN contributionsByPhase
                         THEN contributionsByPhase[ph] ELSE <<>>)
    /\ RegisterStep =>
          LET d == Len(registrations')
              instantiation == registrations'[d].instantiation
          IN (instantiation # Lazy /\ toPhase(instantiation) \in DOMAIN popped)
                => /\ Len(log') = Len(log) + 1
                   /\ log'[Len(log')].ctor = d
                   /\ log'[Len(log')].by = "register"
                   /\ contributionsByPhase' = contributionsByPhase

C17_PhaseDispatchedOnce == [](C17_Dispatched) /\ [][C17_DispatchStep]_vars

\* a phase was dispatched with a contribution pending, a later registration
\* for the same phase was constructed inline, and later phases still wait
C17_Witness ==
    /\ whenCallbacks # {}
    /\ \E ph \in DOMAIN popped :
          /\ popped[ph] # <<>>
          /\ \E k \in LogIdx : log[k].by = "register" /\ log[k].ph = ph
          /\ \E k \in LogIdx : log[k].by = "batch" /\ log[k].ph = ph

\* ---------------------------------------------------------------- C18
\* C18: pendingRestoredContributions.complete() is called at most once, only
\* by the Restored batch, and an idle callback is scheduled only for a batch
\* that still has contributions to process.
C18_BatchEndReachedOnce ==
    /\ completeCalls <= 1
    /\ completeCalls >= 1 => batch[PhaseRestored].created
    /\ \A q \in 1..Len(idleQueue) :
          batch[idleQueue[q]].i < Len(batch[idleQueue[q]].contributions)

\* ---------------------------------------------------------------- C19
\* C19: no id is in contributionsById and in instancesById at the same time.
C19_PendingAndInstancesDisjoint ==
    DOMAIN contributionsById \cap DOMAIN instancesById = {}

\* ---------------------------------------------------------------- C20
\* C20: no factory is called and no phase is dispatched before start; the
\* step that dispatches Starting or Ready hands every contribution pending
\* for that phase to the factory within the same step, in order, with no
\* call from a registration or a lookup in between; and the start step
\* dispatches Starting and Ready when the lifecycle has reached them.
C20_NothingBeforeStart ==
    ~started => (log = <<>> /\ popped = EmptyMap /\ instancesById = EmptyMap)

C20_InlineStep ==
    /\ \A ph \in (DOMAIN popped' \ DOMAIN popped) \cap {PhaseStarting, PhaseReady} :
          LET pending == IF ph \in DOMAIN contributionsByPhase
                         THEN contributionsByPhase[ph] ELSE <<>>
              added == SubSeq(log', Len(log) + 1, Len(log'))
              OfPhase(e) == e.ph = ph
              handed == SelectSeq(added, OfPhase)
          IN /\ Len(handed) = Len(pending)
             /\ \A m \in 1..Len(pending) : handed[m].ctor = pending[m].ctor
             /\ \A m \in 1..Len(added) : added[m].by = "batch"
             /\ ph \notin DOMAIN contributionsByPhase'
    /\ (~started /\ started') =>
          \A ph \in {PhaseStarting, PhaseReady} : phase >= ph => ph \in DOMAIN popped'

C20_StartupBatchesInline == [](C20_NothingBeforeStart) /\ [][C20_InlineStep]_vars

\* contributions were pending for Starting and for Ready, both phases were
\* dispatched and their batches called the factory
C20_Witness ==
    /\ started
    /\ \A ph \in {PhaseStarting, PhaseReady} :
          /\ ph \in DOMAIN popped
          /\ popped[ph] # <<>>
          /\ \A c \in Ctors(popped[ph]) : HandedByBatch(ph, c)
    /\ Len(log) >= 3
====
